---- MODULE Spec2Model ----
(***************************************************************************)
(* Model of app.py: the CHA mobility-area checker.                         *)
(*                                                                         *)
(* A request handler (process_file) or a direct caller runs                *)
(* process_spreadsheet over an uploaded table; every non-empty address is  *)
(* looked up through check_address_on_cha_map, which drives a browser and  *)
(* may fail at every step.  Strings are sequences of characters or of      *)
(* fragments, so that str(), strip() and f-strings are computed.           *)
(***************************************************************************)
EXTENDS Integers, Sequences, FiniteSets, TLC

(* ---------------------------- bounds ----------------------------------- *)

\* longest table explored for a single batch run over a .csv upload
MaxRows == 2
\* longest table explored for a .xlsx upload, and when two requests run
\* concurrently
MaxServerRows == 1
\* most columns of a header explored
MaxCols == 2

(* --------------------------- constants --------------------------------- *)

\* time.sleep(2) after the map has loaded
LoadSettle == 2
\* time.sleep(1) after search_box.fill
FillSettle == 1
\* time.sleep(3) after search_box.press
PressSettle == 3
\* a shorter pause between rows
RateLimitDelayShort == 2 - 1
\* time.sleep(2) at the end of a loop iteration
RateLimitDelay == 2
\* number of entries of search_selectors
NumSelectors == 5

Requests == {"r1", "r2"}
BatchRequests == {"r1"}

\* stored upload names; the extension selects the reader and the writer
CsvFile == [name |-> "a", ext |-> "csv"]
XlsxFile == [name |-> "b", ext |-> "xlsx"]
Filenames == {CsvFile, XlsxFile}

\* raw text of an address cell in the uploaded file
CellTexts == {<< >>, <<" ">>, <<"a">>}

\* exceptions the browser automation raises; str(e) is msg
Errors == {[type |-> "TimeoutError", msg |-> <<"Timeout exceeded">>],
           [type |-> "Error", msg |-> << >>]}

(* ------------------------- pure functions ------------------------------ *)

RECURSIVE SeqsUpTo(_, _)
SeqsUpTo(S, n) ==
    IF n = 0 THEN {<< >>}
    ELSE LET shorter == SeqsUpTo(S, n - 1)
         IN  shorter \cup {Append(s, x) : s \in {q \in shorter : Len(q) = n - 1}, x \in S}

Absent == [kind |-> "absent", cells |-> << >>]
Garbage == [kind |-> "garbage", cells |-> << >>]
Tables(n) == {[kind |-> "table", cells |-> c] : c \in SeqsUpTo(CellTexts, n)}

\* a cell value of the data frame: NaN, or a str
NaN == [nan |-> TRUE, text |-> << >>]
PyStr(s) == [nan |-> FALSE, text |-> s]

\* pandas turns an empty field into NaN and keeps any other text
ParseCell(text) == IF text = << >> THEN NaN ELSE PyStr(text)

ReadCsv(content) ==
    IF content.kind = "table"
    THEN [ok |-> TRUE, cells |-> [i \in 1..Len(content.cells) |-> ParseCell(content.cells[i])]]
    ELSE [ok |-> FALSE, cells |-> << >>]

ReadExcel(content) ==
    IF content.kind = "table"
    THEN [ok |-> TRUE, cells |-> [i \in 1..Len(content.cells) |-> ParseCell(content.cells[i])]]
    ELSE [ok |-> FALSE, cells |-> << >>]

EndsWithCsv(f) == f.ext = "csv"

ReadTable(f, content) == IF EndsWithCsv(f) THEN ReadCsv(content) ELSE ReadExcel(content)

\* str(v): the text of a str, "nan" for NaN
Str(v) == IF v.nan THEN PyStr(<<"n", "a", "n">>) ELSE PyStr(v.text)

\* pd.isna(v)
PdIsNa(v) == v.nan

RECURSIVE LStrip(_)
LStrip(s) == IF s # << >> /\ Head(s) = " " THEN LStrip(Tail(s)) ELSE s

RECURSIVE RStrip(_)
RStrip(s) == IF s # << >> /\ s[Len(s)] = " " THEN RStrip(SubSeq(s, 1, Len(s) - 1)) ELSE s

Strip(s) == RStrip(LStrip(s))

\* the test of line 128 on address = str(row[address_col])
IsEmptyAddress(address) == PdIsNa(address) \/ Strip(address.text) = << >>

\* a freshly read row with the three result columns added
NewRow(label, cell) ==
    [index |-> label, addr |-> cell,
     Is_Mobility_Area |-> "", Check_Status |-> << >>, Checked_At |-> << >>]

\* the row df.at creates when the label does not exist
EnlargedRow(label) ==
    [index |-> label, addr |-> NaN,
     Is_Mobility_Area |-> "NaN", Check_Status |-> <<"NaN">>, Checked_At |-> <<"NaN">>]

\* a result written as a new row instead of into the row of the label
DfAtSetAppend(d, label, col, val) == Append(d, [EnlargedRow(label) EXCEPT ![col] = val])

\* df.at[label, col] = val
DfAtSet(d, label, col, val) ==
    IF \E i \in 1..Len(d) : d[i].index = label
    THEN [i \in 1..Len(d) |-> IF d[i].index = label THEN [d[i] EXCEPT ![col] = val] ELSE d[i]]
    ELSE Append(d, [EnlargedRow(label) EXCEPT ![col] = val])

\* datetime.now().strftime('%Y-%m-%d %H:%M:%S')
Strftime(t) == <<t>>

\* the answer in title case
ClassifyTitle(is_mob) == IF is_mob THEN "Yes" ELSE "No"

\* line 135
Classify(is_mob) == IF is_mob THEN "YES" ELSE "NO"

\* lines 129-130: the row of an empty address
RecordEmpty(d, i) == DfAtSet(d, i, "Check_Status", <<"Empty address">>)

\* the result assigned to the whole columns instead of to the row's cells
RecordLookupColumns(d, i, r, t) ==
    [k \in 1..Len(d) |->
        [d[k] EXCEPT !.Is_Mobility_Area = Classify(r[1]),
                     !.Check_Status = r[2],
                     !.Checked_At = Strftime(t)]]

\* lines 135-137: the row of a looked-up address
RecordLookup(d, i, r, t) ==
    DfAtSet(DfAtSet(DfAtSet(d, i, "Is_Mobility_Area", Classify(r[1])),
                    i, "Check_Status", r[2]),
            i, "Checked_At", Strftime(t))

\* a handler for timeouts only
CaughtTimeoutOnly(e) == e.type = "TimeoutError"

\* lines 92-93: except Exception catches every error the automation raises
Caught(e) == e.type \in {"TimeoutError", "Error"}

\* a handler that returns the bare message
ExceptHandlerBare(e) == <<FALSE, e.msg>>

\* line 93
ExceptHandler(e) == <<FALSE, <<"Error: ">> \o e.msg>>

\* a scope that releases nothing
WithExitLeak(b) == b

\* leaving "with sync_playwright() as p" stops the driver, which closes the
\* browsers it launched
WithExit(b) == IF b = "open" THEN "closed" ELSE b

(* ------------------------------ headers -------------------------------- *)

\* column names, as sequences of characters
ColName == <<"N", "a", "m", "e">>
ColADDRESS == <<"A", "D", "D", "R", "E", "S", "S">>
ColStreet == <<"S", "t", "r", "e", "e", "t">>
ColLocation == <<"L", "o", "c", "a", "t", "i", "o", "n">>
Is_Mobility_Area == <<"I", "s", "_", "M", "o", "b", "i", "l", "i", "t", "y", "_", "A", "r", "e", "a">>
Check_Status == <<"C", "h", "e", "c", "k", "_", "S", "t", "a", "t", "u", "s">>
Checked_At == <<"C", "h", "e", "c", "k", "e", "d", "_", "A", "t">>
ColumnNames ==
    {ColName, ColADDRESS, ColStreet, ColLocation, Is_Mobility_Area, Check_Status, Checked_At}

\* sequences of distinct column names, of at most n names
Headers(n) ==
    {h \in SeqsUpTo(ColumnNames, n) : \A i, j \in 1..Len(h) : h[i] = h[j] => i = j}

\* line 108: the terms looked for
Terms == {<<"a", "d", "d", "r", "e", "s", "s">>,
          <<"s", "t", "r", "e", "e", "t">>,
          <<"l", "o", "c", "a", "t", "i", "o", "n">>}

UpperToLower ==
    [A |-> "a", B |-> "b", C |-> "c", D |-> "d", E |-> "e", F |-> "f", G |-> "g",
     H |-> "h", I |-> "i", J |-> "j", K |-> "k", L |-> "l", M |-> "m", N |-> "n",
     O |-> "o", P |-> "p", Q |-> "q", R |-> "r", S |-> "s", T |-> "t", U |-> "u",
     V |-> "v", W |-> "w", X |-> "x", Y |-> "y", Z |-> "z"]

\* col.lower()
Lower(s) == [i \in 1..Len(s) |-> IF s[i] \in DOMAIN UpperToLower THEN UpperToLower[s[i]] ELSE s[i]]

\* term in s
Contains(s, term) ==
    \E i \in 1..(Len(s) - Len(term) + 1) : SubSeq(s, i, i + Len(term) - 1) = term

\* line 108: any(term in col.lower() for term in [...])
MatchesTerm(col) == \E term \in Terms : Contains(Lower(col), term)

\* the value None, and a column name as a value
None == [isNone |-> TRUE, name |-> << >>]
Some(col) == [isNone |-> FALSE, name |-> col]
\* bool(v) of a column label or None
Truthy(v) == ~v.isNone /\ v.name # << >>

\* the loop without its break: the last matching column wins
RECURSIVE ScanNoBreak(_, _)
ScanNoBreak(cols, i) ==
    IF i > Len(cols) THEN None
    ELSE LET rest == ScanNoBreak(cols, i + 1)
         IN  IF rest # None THEN rest
             ELSE IF MatchesTerm(cols[i]) THEN Some(cols[i]) ELSE None

\* lines 106-110: the loop over df.columns from position i on
RECURSIVE Scan(_, _)
Scan(cols, i) ==
    IF i > Len(cols) THEN None
    ELSE IF MatchesTerm(cols[i]) THEN Some(cols[i])
    ELSE Scan(cols, i + 1)

\* lines 112-114: the first column when the loop found none
Resolve(cols) ==
    LET found == Scan(cols, 1)
    IN  IF ~Truthy(found) THEN Some(cols[1]) ELSE found

\* df[name] = '': a new last column, or the existing column overwritten
SetColumn(cols, name) ==
    IF \E i \in 1..Len(cols) : cols[i] = name THEN cols ELSE Append(cols, name)

\* lines 117-119
AddColumns(cols) ==
    SetColumn(SetColumn(SetColumn(cols, Is_Mobility_Area), Check_Status), Checked_At)

(* ------------------------------ answers -------------------------------- *)

\* lines 199-200
CountOf(d, v) == Cardinality({i \in 1..Len(d) : d[i].Is_Mobility_Area = v})

NoResponse ==
    [code |-> 0, error |-> << >>,
     total_addresses |-> 0, mobility_areas |-> 0, non_mobility_areas |-> 0]
\* lines 183 and 211
ErrorResponse(c, msg) ==
    [code |-> c, error |-> msg,
     total_addresses |-> 0, mobility_areas |-> 0, non_mobility_areas |-> 0]
\* lines 202-208
Summary(d) ==
    [code |-> 200, error |-> << >>, total_addresses |-> Len(d),
     mobility_areas |-> CountOf(d, "YES"), non_mobility_areas |-> CountOf(d, "NO")]

NoFile == [state |-> "absent", rows |-> << >>]

NoException == [origin |-> "none", msg |-> << >>]
\* pandas cannot read the file
ReadError == [origin |-> "read", msg |-> <<"cannot read file">>]
\* the result file cannot be written
WriteError == [origin |-> "write", msg |-> <<"cannot write file">>]

(* ------------------------------ state ---------------------------------- *)

VARIABLES
    now,                \* seconds each request has slept so far: a lower bound of
                        \* the time it has taken, the other calls taking no less than 0 s
    uploads,            \* UPLOAD_FOLDER: stored name -> content
    results,            \* RESULTS_FOLDER: results_<name> -> file
    pc,                 \* position of each request
    filename,           \* the file a request works on
    caller,             \* who called process_spreadsheet
    progress_callback,  \* whether a progress callback was supplied
    df,                 \* the data frame
    total,              \* len(df) at line 121
    idx,                \* index label of the loop
    address,            \* address of the current row
    browser,            \* browser of the current lookup
    search_box,         \* whether search_box is assigned
    sel,                \* selectors tried so far, while the selector loop runs
    is_mobility,        \* local of check_address_on_cha_map
    ret,                \* value returned by check_address_on_cha_map
    response,           \* HTTP response of process_file
    exc,                \* the exception that left process_spreadsheet or the write
    input,              \* the rows as read: what iterrows iterates over
    calls,              \* lookups made: row, start, end, failed (observation)
    events,             \* progress events delivered (observation)
    header,             \* column names of the table as read
    columns,            \* df.columns
    address_col,        \* local of process_spreadsheet
    hpc,                \* position within lines 105-119
    stop,               \* whether the caller of a batch has asked it to stop
    wall,               \* the server's clock, in seconds
    sent,               \* what each client has uploaded: name and content
    upload_response     \* what /upload answered each client

vars == <<now, uploads, results, pc, filename, caller,
          progress_callback, df, total, idx, address, browser, search_box, sel,
          is_mobility, ret, response, exc, input, calls, events,
          header, columns, address_col, hpc, stop, wall, sent, upload_response>>

\* the state of the batch runs and of the two folders
batchVars == <<now, uploads, results, pc, filename, caller,
               progress_callback, df, total, idx, address, browser, search_box, sel,
               is_mobility, ret, response, exc, input, calls, events>>
fileVars == <<uploads, results>>
lookupVars == <<browser, search_box, sel, is_mobility>>
obsVars == <<input, calls, events>>
headerVars == <<header, columns, address_col, hpc>>
uploadVars == <<wall, sent, upload_response>>
\* what a batch run over a read table neither reads nor writes
envVars == <<headerVars, stop, uploadVars>>

InitRequests ==
    /\ now = [t \in Requests |-> 0]
    /\ results = [f \in Filenames |-> NoFile]
    /\ pc = [t \in Requests |-> "idle"]
    /\ filename = [t \in Requests |-> CHOOSE f \in Filenames : TRUE]
    /\ caller = [t \in Requests |-> "none"]
    /\ progress_callback = [t \in Requests |-> FALSE]
    /\ df = [t \in Requests |-> << >>]
    /\ total = [t \in Requests |-> 0]
    /\ idx = [t \in Requests |-> 0]
    /\ address = [t \in Requests |-> PyStr(<< >>)]
    /\ browser = [t \in Requests |-> "none"]
    /\ search_box = [t \in Requests |-> FALSE]
    /\ sel = [t \in Requests |-> 0]
    /\ is_mobility = [t \in Requests |-> FALSE]
    /\ ret = [t \in Requests |-> <<FALSE, << >>>>]
    /\ response = [t \in Requests |-> NoResponse]
    /\ exc = [t \in Requests |-> NoException]
    /\ input = [t \in Requests |-> << >>]
    /\ calls = [t \in Requests |-> << >>]
    /\ events = [t \in Requests |-> << >>]

HeaderIdle ==
    /\ header = << >>
    /\ columns = << >>
    /\ address_col = None
    /\ hpc = "idle"

CancelIdle == stop = [t \in Requests |-> FALSE]

UploadIdle ==
    /\ wall = 0
    /\ sent = << >>
    /\ upload_response = << >>

\* one stored upload named in F, of any content of at most n rows
UploadsOf(F, n) ==
    {[g \in Filenames |-> IF g = f THEN c ELSE Absent] :
        f \in F, c \in Tables(n) \cup {Garbage}}

Init ==
    /\ InitRequests
    /\ HeaderIdle
    /\ CancelIdle
    /\ UploadIdle
    /\ uploads \in UploadsOf({CsvFile}, MaxRows) \cup UploadsOf({XlsxFile}, MaxServerRows)

ServerInit ==
    /\ InitRequests
    /\ HeaderIdle
    /\ CancelIdle
    /\ UploadIdle
    /\ uploads \in UploadsOf(Filenames, MaxServerRows)

(* ----------------------------- actions --------------------------------- *)

\* the exception x leaves process_spreadsheet: process_file answers 500
\* (lines 210-211), a direct caller sees it raised
Propagate(t, x) ==
    /\ exc' = [exc EXCEPT ![t] = x]
    /\ IF caller[t] = "process_file"
       THEN /\ pc' = [pc EXCEPT ![t] = "done"]
            /\ response' = [response EXCEPT ![t] = ErrorResponse(500, x.msg)]
       ELSE /\ pc' = [pc EXCEPT ![t] = "raised"]
            /\ UNCHANGED response

\* lines 178-187: POST /process/<filename>
ProcessFile(t, f) ==
    /\ pc[t] = "idle"
    /\ filename' = [filename EXCEPT ![t] = f]
    /\ caller' = [caller EXCEPT ![t] = "process_file"]
    /\ progress_callback' = [progress_callback EXCEPT ![t] = FALSE]
    /\ IF uploads[f].kind = "absent"
       THEN /\ pc' = [pc EXCEPT ![t] = "done"]
            /\ response' = [response EXCEPT ![t] = ErrorResponse(404, <<"File not found">>)]
       ELSE /\ pc' = [pc EXCEPT ![t] = "ps_read"]
            /\ UNCHANGED response
    /\ UNCHANGED <<envVars, now, fileVars, df, total, idx, address, lookupVars, ret, exc, obsVars>>

\* line 95: process_spreadsheet(filepath, progress_callback) called directly,
\* with a progress callback
CallProcessSpreadsheet(t, f) ==
    /\ pc[t] = "idle"
    /\ filename' = [filename EXCEPT ![t] = f]
    /\ caller' = [caller EXCEPT ![t] = "direct"]
    /\ progress_callback' = [progress_callback EXCEPT ![t] = TRUE]
    /\ pc' = [pc EXCEPT ![t] = "ps_read"]
    /\ UNCHANGED <<envVars, now, fileVars, df, total, idx, address, lookupVars, ret, response, exc,
                   obsVars>>

\* lines 99-121: read the file, add the result columns
ReadSpreadsheet(t) ==
    /\ pc[t] = "ps_read"
    /\ LET r == ReadTable(filename[t], uploads[filename[t]])
       IN  IF r.ok
           THEN /\ df' = [df EXCEPT ![t] = [i \in 1..Len(r.cells) |-> NewRow(i - 1, r.cells[i])]]
                /\ input' = [input EXCEPT ![t] = r.cells]
                /\ total' = [total EXCEPT ![t] = Len(r.cells)]
                /\ idx' = [idx EXCEPT ![t] = 0]
                /\ pc' = [pc EXCEPT ![t] = "ps_loop"]
                /\ UNCHANGED <<response, exc>>
           ELSE /\ Propagate(t, ReadError)
                /\ UNCHANGED <<df, input, total, idx>>
    /\ UNCHANGED <<envVars, now, fileVars, filename, caller, progress_callback, address,
                   lookupVars, ret, calls, events>>

\* the loop without its continue: an empty address is recorded and the
\* iteration goes on to the wait of line 144
NextRowNoContinue(t) ==
    /\ pc[t] = "ps_loop"
    /\ idx[t] < total[t]
    /\ LET a == Str(input[t][idx[t] + 1])
       IN  /\ address' = [address EXCEPT ![t] = a]
           /\ IF IsEmptyAddress(a)
              THEN /\ df' = [df EXCEPT ![t] = RecordEmpty(df[t], idx[t])]
                   /\ pc' = [pc EXCEPT ![t] = "ps_sleep"]
                   /\ UNCHANGED <<idx, calls>>
              ELSE /\ pc' = [pc EXCEPT ![t] = "chk_launch"]
                   /\ calls' = [calls EXCEPT ![t] =
                          Append(@, [row |-> idx[t], start |-> now[t], end |-> -1, failed |-> FALSE])]
                   /\ UNCHANGED <<df, idx>>
    /\ UNCHANGED <<envVars, now, fileVars, filename, caller, progress_callback, total,
                   lookupVars, ret, response, exc, input, events>>

\* lines 124-133: next row; an empty address is recorded and skipped,
\* any other address is handed to check_address_on_cha_map
NextRow(t) ==
    /\ pc[t] = "ps_loop"
    /\ idx[t] < total[t]
    /\ LET a == Str(input[t][idx[t] + 1])
       IN  /\ address' = [address EXCEPT ![t] = a]
           /\ IF IsEmptyAddress(a)
              THEN /\ df' = [df EXCEPT ![t] = RecordEmpty(df[t], idx[t])]
                   /\ idx' = [idx EXCEPT ![t] = idx[t] + 1]
                   /\ UNCHANGED <<pc, calls>>
              ELSE /\ pc' = [pc EXCEPT ![t] = "chk_launch"]
                   /\ calls' = [calls EXCEPT ![t] =
                          Append(@, [row |-> idx[t], start |-> now[t], end |-> -1, failed |-> FALSE])]
                   /\ UNCHANGED <<df, idx>>
    /\ UNCHANGED <<envVars, now, fileVars, filename, caller, progress_callback, total,
                   lookupVars, ret, response, exc, input, events>>

\* the lookup in flight ends: its completion time and outcome are noted
EndCall(t, failed, at) ==
    calls' = [calls EXCEPT ![t][Len(calls[t])] = [@ EXCEPT !.end = at, !.failed = failed]]

\* an exception e at time at inside the with block, the browser being in
\* state b: the with block is left, then lines 92-93 or propagation
Raise(t, e, b, at) ==
    /\ browser' = [browser EXCEPT ![t] = WithExit(b)]
    /\ EndCall(t, TRUE, at)
    /\ IF Caught(e)
       THEN /\ ret' = [ret EXCEPT ![t] = ExceptHandler(e)]
            /\ pc' = [pc EXCEPT ![t] = "ps_record"]
            /\ UNCHANGED <<response, exc>>
       ELSE /\ UNCHANGED ret
            /\ Propagate(t, [origin |-> "lookup", msg |-> e.msg])

\* lines 28-31: start playwright, launch the browser, open a page
Launch(t) ==
    /\ pc[t] = "chk_launch"
    /\ \/ /\ browser' = [browser EXCEPT ![t] = "open"]
          /\ pc' = [pc EXCEPT ![t] = "chk_goto"]
          /\ UNCHANGED <<ret, response, exc, calls>>
       \/ \E e \in Errors : Raise(t, e, "none", now[t])      \* launch fails
       \/ \E e \in Errors : Raise(t, e, "open", now[t])      \* new_page fails
    /\ UNCHANGED <<envVars, now, fileVars, filename, caller, progress_callback, df, total,
                   idx, address, search_box, sel, is_mobility, input, events>>

\* lines 34-38: load the map and let it settle
Navigate(t) ==
    /\ pc[t] = "chk_goto"
    /\ \/ /\ now' = [now EXCEPT ![t] = @ + LoadSettle]
          /\ pc' = [pc EXCEPT ![t] = "chk_find"]
          /\ UNCHANGED <<browser, ret, response, exc, calls>>
       \/ /\ UNCHANGED now                          \* goto or the load wait fails
          /\ \E e \in Errors : Raise(t, e, browser[t], now[t])
    /\ UNCHANGED <<envVars, fileVars, filename, caller, progress_callback, df, total, idx,
                   address, search_box, sel, is_mobility, input, events>>

\* lines 50-56: one iteration of the selector loop
TrySelector(t) ==
    /\ pc[t] = "chk_find"
    /\ sel[t] < NumSelectors
    /\ \/ /\ UNCHANGED search_box                    \* locator raises: continue
          /\ sel' = [sel EXCEPT ![t] = sel[t] + 1]
          /\ UNCHANGED pc
       \/ /\ search_box' = [search_box EXCEPT ![t] = TRUE]   \* not visible, or is_visible raises
          /\ sel' = [sel EXCEPT ![t] = sel[t] + 1]
          /\ UNCHANGED pc
       \/ /\ search_box' = [search_box EXCEPT ![t] = TRUE]   \* visible: break
          /\ sel' = [sel EXCEPT ![t] = 0]
          /\ pc' = [pc EXCEPT ![t] = "chk_search"]
    /\ UNCHANGED <<envVars, now, fileVars, filename, caller, progress_callback, df, total, idx,
                   address, browser, is_mobility, ret, response, exc, obsVars>>

\* line 50: the selectors are exhausted
SelectorsExhausted(t) ==
    /\ pc[t] = "chk_find"
    /\ sel[t] = NumSelectors
    /\ sel' = [sel EXCEPT ![t] = 0]
    /\ pc' = [pc EXCEPT ![t] = "chk_search"]
    /\ UNCHANGED <<envVars, now, fileVars, filename, caller, progress_callback, df, total, idx,
                   address, browser, search_box, is_mobility, ret, response, exc, obsVars>>

\* lines 58-71: give up without a search box, else type the address,
\* press Enter and read the page
Search(t) ==
    /\ pc[t] = "chk_search"
    /\ IF ~search_box[t]
       THEN /\ ret' = [ret EXCEPT ![t] = <<FALSE, <<"Could not find search box on map">>>>]
            /\ browser' = [browser EXCEPT ![t] = WithExit(browser[t])]
            /\ UNCHANGED now
            /\ EndCall(t, TRUE, now[t])
            /\ pc' = [pc EXCEPT ![t] = "ps_record"]
            /\ UNCHANGED <<response, exc>>
       ELSE \/ /\ now' = [now EXCEPT ![t] = @ + FillSettle + PressSettle]
               /\ pc' = [pc EXCEPT ![t] = "chk_count"]
               /\ UNCHANGED <<browser, ret, response, exc, calls>>
            \/ /\ UNCHANGED now                                  \* fill fails
               /\ \E e \in Errors : Raise(t, e, browser[t], now[t])
            \/ /\ now' = [now EXCEPT ![t] = @ + FillSettle]                        \* press fails
               /\ \E e \in Errors : Raise(t, e, browser[t], now[t] + FillSettle)
            \/ /\ now' = [now EXCEPT ![t] = @ + FillSettle + PressSettle]          \* content fails
               /\ \E e \in Errors : Raise(t, e, browser[t], now[t] + FillSettle + PressSettle)
    /\ UNCHANGED <<envVars, fileVars, filename, caller, progress_callback, df, total, idx,
                   address, search_box, sel, is_mobility, input, events>>

\* lines 75-86: count the result elements; an error here is swallowed
CountResults(t) ==
    /\ pc[t] = "chk_count"
    /\ \/ \E result_elements \in 0..1 :
             is_mobility' = [is_mobility EXCEPT ![t] = result_elements > 0]
       \/ UNCHANGED is_mobility
    /\ pc' = [pc EXCEPT ![t] = "chk_close"]
    /\ UNCHANGED <<envVars, now, fileVars, filename, caller, progress_callback, df, total, idx,
                   address, browser, search_box, sel, ret, response, exc, obsVars>>

\* lines 88-90: close the browser and return the result
CloseAndReturn(t) ==
    /\ pc[t] = "chk_close"
    /\ \/ /\ browser' = [browser EXCEPT ![t] = WithExit("closed")]
          /\ ret' = [ret EXCEPT ![t] = <<is_mobility[t], <<"Successfully checked">>>>]
          /\ EndCall(t, FALSE, now[t])
          /\ pc' = [pc EXCEPT ![t] = "ps_record"]
          /\ UNCHANGED <<response, exc>>
       \/ \E e \in Errors : Raise(t, e, browser[t], now[t])   \* close fails
    /\ UNCHANGED <<envVars, now, fileVars, filename, caller, progress_callback, df, total, idx,
                   address, search_box, sel, is_mobility, input, events>>

\* lines 133-137: the lookup has returned (its locals are gone); write the
\* row's result
RecordResult(t) ==
    /\ pc[t] = "ps_record"
    /\ search_box' = [search_box EXCEPT ![t] = FALSE]
    /\ sel' = [sel EXCEPT ![t] = 0]
    /\ is_mobility' = [is_mobility EXCEPT ![t] = FALSE]
    /\ df' = [df EXCEPT ![t] = RecordLookup(df[t], idx[t], ret[t], now[t])]
    /\ pc' = [pc EXCEPT ![t] = "ps_progress"]
    /\ UNCHANGED <<envVars, now, fileVars, filename, caller, progress_callback, total, idx,
                   address, browser, ret, response, exc, obsVars>>

\* progress reported with the row's index instead of the count of rows done
ReportProgressZeroBased(t) ==
    /\ pc[t] = "ps_progress"
    /\ events' = [events EXCEPT ![t] =
           IF progress_callback[t] THEN Append(@, <<idx[t], total[t]>>) ELSE @]
    /\ pc' = [pc EXCEPT ![t] = "ps_sleep"]
    /\ UNCHANGED <<envVars, now, fileVars, filename, caller, progress_callback, df, total, idx,
                   address, lookupVars, ret, response, exc, input, calls>>

\* lines 139-141: if progress_callback: progress_callback(idx + 1, total)
ReportProgress(t) ==
    /\ pc[t] = "ps_progress"
    /\ events' = [events EXCEPT ![t] =
           IF progress_callback[t] THEN Append(@, <<idx[t] + 1, total[t]>>) ELSE @]
    /\ pc' = [pc EXCEPT ![t] = "ps_sleep"]
    /\ UNCHANGED <<envVars, now, fileVars, filename, caller, progress_callback, df, total, idx,
                   address, lookupVars, ret, response, exc, input, calls>>

\* line 144: rate limiting
RateLimit(t) ==
    /\ pc[t] = "ps_sleep"
    /\ now' = [now EXCEPT ![t] = @ + RateLimitDelay]
    /\ idx' = [idx EXCEPT ![t] = idx[t] + 1]
    /\ pc' = [pc EXCEPT ![t] = "ps_loop"]
    /\ UNCHANGED <<envVars, fileVars, filename, caller, progress_callback, df, total,
                   address, lookupVars, ret, response, exc, obsVars>>

\* line 146: the loop is over, the data frame is returned
ReturnDf(t) ==
    /\ pc[t] = "ps_loop"
    /\ idx[t] = total[t]
    /\ pc' = [pc EXCEPT ![t] = IF caller[t] = "process_file" THEN "pf_save" ELSE "returned"]
    /\ UNCHANGED <<envVars, now, fileVars, filename, caller, progress_callback, df, total, idx,
                   address, lookupVars, ret, response, exc, obsVars>>

\* lines 189-211: write the result file in place, count, answer
SaveResults(t) ==
    /\ pc[t] = "pf_save"
    /\ \/ /\ results' = [results EXCEPT ![filename[t]] = [state |-> "complete", rows |-> df[t]]]
          /\ response' = [response EXCEPT ![t] = Summary(df[t])]
          /\ UNCHANGED exc
       \/ /\ UNCHANGED results                       \* the file cannot be opened
          /\ response' = [response EXCEPT ![t] = ErrorResponse(500, WriteError.msg)]
          /\ exc' = [exc EXCEPT ![t] = WriteError]
       \/ \E k \in 0..Len(df[t]) :                   \* the write fails part-way
             /\ results' = [results EXCEPT ![filename[t]] =
                    [state |-> "partial", rows |-> SubSeq(df[t], 1, k)]]
             /\ response' = [response EXCEPT ![t] = ErrorResponse(500, WriteError.msg)]
             /\ exc' = [exc EXCEPT ![t] = WriteError]
    /\ pc' = [pc EXCEPT ![t] = "done"]
    /\ UNCHANGED <<envVars, now, uploads, filename, caller, progress_callback, df,
                   total, idx, address, lookupVars, ret, obsVars>>

\* lines 213-220: what GET /download/results_<f> answers
download_file(f) ==
    IF results[f].state = "absent" THEN [code |-> 404, file |-> NoFile]
    ELSE [code |-> 200, file |-> results[f]]

\* lines 213-220: GET /download/results_<f>; the handler only reads
DownloadFile(f) ==
    /\ download_file(f).code \in {200, 404}
    /\ UNCHANGED vars

Lookup(t) ==
    \/ Launch(t)
    \/ Navigate(t)
    \/ TrySelector(t)
    \/ SelectorsExhausted(t)
    \/ Search(t)
    \/ CountResults(t)
    \/ CloseAndReturn(t)

Batch(t) ==
    \/ ReadSpreadsheet(t)
    \/ NextRow(t)
    \/ RecordResult(t)
    \/ ReportProgress(t)
    \/ RateLimit(t)
    \/ ReturnDf(t)

\* one batch run: a request, or a direct call with a progress callback
Next ==
    \/ \E t \in BatchRequests, f \in Filenames : ProcessFile(t, f)
    \/ \E t \in BatchRequests, f \in Filenames : CallProcessSpreadsheet(t, f)
    \/ \E t \in BatchRequests : Batch(t) \/ Lookup(t) \/ SaveResults(t)

Spec == Init /\ [][Next]_vars

\* the threaded server of line 224: requests are handled concurrently
ServerNext ==
    \/ \E t \in Requests, f \in Filenames : ProcessFile(t, f)
    \/ \E t \in Requests : Batch(t) \/ Lookup(t) \/ SaveResults(t)
    \/ \E f \in Filenames : DownloadFile(f)

ServerSpec == ServerInit /\ [][ServerNext]_vars

FairSpec == Spec /\ WF_vars(Next)

(* ------------------- the header of process_spreadsheet ----------------- *)

\* lines 100-103: a table has been read, with any header
HeaderInit ==
    /\ InitRequests
    /\ CancelIdle
    /\ UploadIdle
    /\ uploads = [f \in Filenames |-> Absent]
    /\ header \in Headers(MaxCols)
    /\ columns = header
    /\ address_col = None
    /\ hpc = "read"

\* lines 105-114: find the address column; df.columns[0] of a table
\* without columns raises IndexError
ResolveAddressColumn ==
    /\ hpc = "read"
    /\ IF columns = << >> /\ ~Truthy(Scan(columns, 1))
       THEN /\ hpc' = "raised"
            /\ UNCHANGED address_col
       ELSE /\ address_col' = Resolve(columns)
            /\ hpc' = "resolved"
    /\ UNCHANGED <<batchVars, header, columns, stop, uploadVars>>

\* lines 116-119: add the result columns
AddResultColumns ==
    /\ hpc = "resolved"
    /\ columns' = AddColumns(columns)
    /\ hpc' = "added"
    /\ UNCHANGED <<batchVars, header, address_col, stop, uploadVars>>

HeaderNext == ResolveAddressColumn \/ AddResultColumns

HeaderSpec == HeaderInit /\ [][HeaderNext]_vars

(* --------------------------- cancellation ------------------------------ *)

\* a batch is between its start and its return
Running(t) == pc[t] \notin {"idle", "done", "returned", "raised"}

\* the caller of a running batch raises its stop flag; the signature of
\* line 95 takes no such flag and lines 124-144 read none, so nothing of the
\* batch changes
RequestStop(t) ==
    /\ Running(t)
    /\ ~stop[t]
    /\ stop' = [stop EXCEPT ![t] = TRUE]
    /\ UNCHANGED <<batchVars, headerVars, uploadVars>>

CancelNext ==
    \/ Next
    \/ \E t \in BatchRequests : RequestStop(t)

\* one batch run whose caller may ask it to stop
CancelSpec == Init /\ [][CancelNext]_vars

(* ------------------------------ uploads -------------------------------- *)

\* the clock is read MaxWall times at most
MaxWall == 3

\* datetime.now() is finer than the seconds '%S' prints: instants per second
TicksPerSecond == 2

\* line 18
ALLOWED_EXTENSIONS == {<<"x", "l", "s", "x">>, <<"x", "l", "s">>, <<"c", "s", "v">>}

\* filename.rsplit('.', 1)[1], for a filename with a dot
RSplitDot(fn) ==
    LET last == CHOOSE i \in 1..Len(fn) :
                    fn[i] = "." /\ \A j \in (i + 1)..Len(fn) : fn[j] # "."
    IN  SubSeq(fn, last + 1, Len(fn))

\* lines 20-21
allowed_file(fn) ==
    /\ \E i \in 1..Len(fn) : fn[i] = "."
    /\ Lower(RSplitDot(fn)) \in ALLOWED_EXTENSIONS

\* werkzeug's secure_filename: path separators become blanks
ReplaceSep(fn) == [i \in 1..Len(fn) |-> IF fn[i] = "/" THEN " " ELSE fn[i]]

\* '_'.join(s.split()) of a string without blanks at its ends
RECURSIVE JoinWords(_)
JoinWords(s) ==
    IF s = << >> THEN << >>
    ELSE IF Head(s) = " " THEN <<"_">> \o JoinWords(LStrip(s))
    ELSE <<Head(s)>> \o JoinWords(Tail(s))

\* the characters secure_filename keeps
SafeChars ==
    DOMAIN UpperToLower \cup {UpperToLower[ch] : ch \in DOMAIN UpperToLower}
    \cup {"0", "1", "2", "3", "4", "5", "6", "7", "8", "9", "_", ".", "-"}

KeepSafe(ch) == ch \in SafeChars

\* s.strip('._')
RECURSIVE StripDotUnderscore(_)
StripDotUnderscore(s) ==
    IF s # << >> /\ Head(s) \in {".", "_"} THEN StripDotUnderscore(Tail(s))
    ELSE IF s # << >> /\ s[Len(s)] \in {".", "_"}
         THEN StripDotUnderscore(SubSeq(s, 1, Len(s) - 1))
    ELSE s

\* line 166: secure_filename(file.filename)
secure_filename(fn) ==
    StripDotUnderscore(SelectSeq(JoinWords(Strip(ReplaceSep(fn))), KeepSafe))

\* line 167: datetime.now().strftime('%Y%m%d_%H%M%S'), the second of instant w
Timestamp(w) == w \div TicksPerSecond

\* line 168: f"{timestamp}_{filename}", the two parts kept apart
UniqueFilename(w, fn) == [timestamp |-> Timestamp(w), name |-> secure_filename(fn)]

\* filenames a client may send
UploadNames ==
    {<<"a", ".", "c", "s", "v">>,
     <<"/", "a", ".", "c", "s", "v">>,
     <<"a", ".", "t", "x", "t">>,
     << >>}

\* the multipart requests a client may send: without a file part, or with
\* a file of some name and content
NoFilePart == [has_file |-> FALSE, filename |-> << >>, content |-> Absent]
UploadRequests ==
    {NoFilePart}
    \cup {[has_file |-> TRUE, filename |-> fn, content |-> c] :
             fn \in UploadNames, c \in Tables(MaxServerRows)}

\* the names under which UPLOAD_FOLDER can hold a file
StoredNames ==
    {UniqueFilename(w, fn) : w \in 0..MaxWall, fn \in {n \in UploadNames : allowed_file(n)}}

NotSent == [has_file |-> FALSE, filename |-> << >>, content |-> Garbage]
NoUploadResponse == [code |-> 0, error |-> << >>, filename |-> << >>]
\* lines 155, 160, 163
UploadError(msg) == [code |-> 400, error |-> msg, filename |-> << >>]
\* lines 172-176
UploadSuccess(unique_filename) == [code |-> 200, error |-> << >>, filename |-> unique_filename]

UploadInit ==
    /\ InitRequests
    /\ HeaderIdle
    /\ CancelIdle
    /\ wall = 0
    /\ sent = [c \in Requests |-> NotSent]
    /\ upload_response = [c \in Requests |-> NoUploadResponse]
    /\ uploads = [f \in StoredNames |-> Absent]

\* time passes
Tick ==
    /\ wall < MaxWall
    /\ wall' = wall + 1
    /\ UNCHANGED <<batchVars, headerVars, stop, sent, upload_response>>

\* lines 152-176: POST /upload of client c with request req
UploadFile(c, req) ==
    /\ upload_response[c] = NoUploadResponse
    /\ sent' = [sent EXCEPT ![c] = req]
    /\ IF ~req.has_file
       THEN /\ upload_response' = [upload_response EXCEPT ![c] = UploadError(<<"No file uploaded">>)]
            /\ UNCHANGED uploads
       ELSE IF req.filename = << >>
       THEN /\ upload_response' = [upload_response EXCEPT ![c] = UploadError(<<"No file selected">>)]
            /\ UNCHANGED uploads
       ELSE IF ~allowed_file(req.filename)
       THEN /\ upload_response' = [upload_response EXCEPT ![c] =
                   UploadError(<<"Invalid file type. Please upload .xlsx, .xls, or .csv">>)]
            /\ UNCHANGED uploads
       ELSE LET unique_filename == UniqueFilename(wall, req.filename)
            IN  /\ uploads' = [uploads EXCEPT ![unique_filename] = req.content]
                /\ upload_response' = [upload_response EXCEPT ![c] = UploadSuccess(unique_filename)]
    /\ UNCHANGED <<now, results, pc, filename, caller, progress_callback, df, total, idx,
                   address, lookupVars, ret, response, exc, obsVars, headerVars, stop, wall>>

\* lines 180-187: the content POST /process/<filename> hands to
\* process_spreadsheet, for the filename /upload answered client c
ProcessedContent(c) == uploads[upload_response[c].filename]

UploadNext ==
    \/ Tick
    \/ \E c \in Requests, req \in UploadRequests : UploadFile(c, req)

\* two clients uploading while time passes
UploadSpec == UploadInit /\ [][UploadNext]_vars

(* ------------------------------ claims --------------------------------- *)

InLookup(t) ==
    pc[t] \in {"chk_launch", "chk_goto", "chk_find", "chk_search", "chk_count", "chk_close"}

\* process_spreadsheet has returned its data frame
Returned(t) == pc[t] \in {"returned", "pf_save"} \/ (pc[t] = "done" /\ exc[t].origin \in {"none", "write"} /\ response[t].code # 404)

\* the last lookup of t has come back
LastCallEnded(t) == calls[t] # << >> /\ calls[t][Len(calls[t])].end >= 0

\* an address cell that is empty, whitespace-only or missing
IsBlankCell(c) == c.nan \/ Strip(c.text) = << >>

\* rows of t a lookup was made for
CalledRows(t) == {calls[t][k].row : k \in 1..Len(calls[t])}

\* rows of t whose lookup failed
FailedRows(t) == {calls[t][k].row : k \in {j \in 1..Len(calls[t]) : calls[t][j].failed}}

\* C1: when process_spreadsheet returns, the output has exactly one row per
\* input row, in the input's order: none dropped, duplicated or reordered.
C1_OneRowPerInputRow ==
    \A t \in Requests :
        Returned(t) =>
            /\ Len(df[t]) = Len(uploads[filename[t]].cells)
            /\ \A i \in 1..Len(df[t]) :
                  /\ df[t][i].index = i - 1
                  /\ df[t][i].addr = ParseCell(uploads[filename[t]].cells[i])

\* a returned two-row batch with a skipped row and a failed lookup
C1_Witness ==
    \E t \in Requests :
        /\ pc[t] = "returned"
        /\ Len(df[t]) = 2
        /\ FailedRows(t) # {}
        /\ \E i \in 1..2 : df[t][i].Check_Status = <<"Empty address">>

\* C2: a row whose lookup failed is Unknown: its Is_Mobility_Area is neither
\* YES nor NO, and the summary of process_file counts it in neither
\* mobility_areas nor non_mobility_areas.
C2_FailedLookupIsUnknown ==
    \A t \in Requests :
        (pc[t] = "done" /\ response[t].code = 200) =>
            /\ \A r \in FailedRows(t) : df[t][r + 1].Is_Mobility_Area \notin {"YES", "NO"}
            /\ response[t].mobility_areas + response[t].non_mobility_areas
                   = Cardinality(CalledRows(t) \ FailedRows(t))

\* C3: a row whose address cell is empty, whitespace-only or missing is never
\* looked up; its Check_Status is 'Empty address' and its Is_Mobility_Area and
\* Checked_At stay empty.
C3_BlankAddressNeverLookedUp ==
    \A t \in Requests :
        \A i \in 1..Len(input[t]) :
            IsBlankCell(input[t][i]) =>
                /\ (i - 1) \notin CalledRows(t)
                /\ idx[t] > i - 1 =>
                      /\ df[t][i].Check_Status = <<"Empty address">>
                      /\ df[t][i].Is_Mobility_Area = ""
                      /\ df[t][i].Checked_At = << >>

\* C4: with a progress callback, a batch of N rows produces exactly N
\* progress events, the k-th reporting (k, N).
C4_ProgressAfterEveryRow ==
    \A t \in Requests :
        (progress_callback[t] /\ pc[t] = "returned") =>
            events[t] = [k \in 1..total[t] |-> <<k, total[t]>>]

\* C5: at every moment at most one lookup is in flight, whatever the
\* interleaving of /process requests.
C5_AtMostOneLookupInFlight ==
    Cardinality({t \in Requests : InLookup(t)}) <= 1

C7_LookupAlwaysReturnsStatus ==
    \A t \in Requests :
        /\ exc[t].origin # "lookup"
        /\ LastCallEnded(t) => Len(ret[t][2]) > 0

\* a lookup that failed with an exception whose message is empty has returned
C7_Witness ==
    \E t \in Requests :
        /\ pc[t] = "ps_record"
        /\ calls[t][Len(calls[t])].failed
        /\ ret[t] = <<FALSE, <<"Error: ">>>>

\* C8: once check_address_on_cha_map has returned, no browser it launched is
\* open, whichever way it was left.
C8_BrowserClosedOnReturn ==
    \A t \in Requests : ~InLookup(t) => browser[t] # "open"

\* a lookup left by an exception after the browser was launched
C8_Witness ==
    \E t \in Requests :
        /\ pc[t] = "ps_record"
        /\ calls[t][Len(calls[t])].failed
        /\ ret[t][2] # <<"Could not find search box on map">>
        /\ browser[t] = "closed"

\* C9: a /process request that ends in a fatal error leaves no result file of
\* its upload for /download to serve; one that succeeds leaves a complete one.
C9_NoResultFileAfterFatalError ==
    \A t \in Requests :
        pc[t] = "done" =>
            /\ response[t].code = 500 => download_file(filename[t]).code = 404
            /\ response[t].code = 200 => download_file(filename[t]).file.state = "complete"

\* every row of t has been recorded
AllRecorded(t) == \A i \in 1..Len(df[t]) : df[t][i].Check_Status # << >>

\* C10: a batch run that has read its table terminates with every row
\* recorded, whatever the outcome of each lookup: no lookup failure aborts it.
C10_BatchTerminatesRecorded ==
    \A t \in BatchRequests :
        (pc[t] = "ps_loop") ~> (Returned(t) /\ Len(df[t]) = total[t] /\ AllRecorded(t))

\* a returned batch whose first lookup failed and whose second row was
\* looked up all the same
C10_Witness ==
    \E t \in Requests :
        /\ Returned(t)
        /\ 0 \in FailedRows(t)
        /\ 1 \in CalledRows(t)
        /\ AllRecorded(t)

\* C11: the output columns are the input columns in their order followed by
\* Is_Mobility_Area, Check_Status, Checked_At, also when the input already
\* has a column of one of these names.
C11_ThreeColumnsAppended ==
    hpc = "added" => columns = header \o <<Is_Mobility_Area, Check_Status, Checked_At>>

\* positions of the header whose lowercased name contains a term
MatchingPositions == {i \in 1..Len(header) : MatchesTerm(header[i])}

\* C12: the address column is the first column whose lowercased name contains
\* 'address', 'street' or 'location', and the column at index 0 when none does.
C12_FirstMatchingColumn ==
    hpc \in {"resolved", "added"} =>
        /\ ~address_col.isNone
        /\ IF MatchingPositions = {}
           THEN address_col.name = header[1]
           ELSE \E i \in MatchingPositions :
                   /\ \A j \in MatchingPositions : i <= j
                   /\ address_col.name = header[i]

\* a header of two matching columns, the first of which is taken
C12_Witness ==
    /\ hpc = "resolved"
    /\ Len(header) = 2
    /\ MatchingPositions = {1, 2}
    /\ address_col.name = header[1]

\* C13: when a batch has completed, every Is_Mobility_Area cell is 'YES', 'NO'
\* or empty, and the summary of /process counts them all: total_addresses =
\* mobility_areas + non_mobility_areas + the rows whose cell is empty
C13_SummaryPartitionsRows ==
    \A t \in BatchRequests :
        /\ Returned(t) =>
               \A i \in 1..Len(df[t]) : df[t][i].Is_Mobility_Area \in {"YES", "NO", ""}
        /\ (pc[t] = "done" /\ response[t].code = 200) =>
               response[t].total_addresses =
                   response[t].mobility_areas + response[t].non_mobility_areas
                   + CountOf(df[t], "")

\* a summary of two rows: one mobility area, one row without an answer
C13_Witness ==
    \E t \in BatchRequests :
        /\ pc[t] = "done" /\ response[t].code = 200
        /\ response[t].total_addresses = 2
        /\ response[t].mobility_areas = 1
        /\ CountOf(df[t], "") = 1

\* C14: once the caller has raised the stop flag of a running batch, the
\* between-rows check starts no lookup for a later row
C14_NoLookupStartsAfterStop ==
    [][\A t \in BatchRequests :
          (stop[t] /\ pc[t] = "ps_loop") => pc'[t] # "chk_launch"]_vars

\* the row at position i of request t has its Check_Status cell written
Written(t, i) == i <= Len(df[t]) /\ df[t][i].Check_Status # << >>

\* C15: in one batch run no row is looked up twice and, when the run has
\* returned, every row with a non-empty address has been looked up exactly
\* once; a row's result cells are written in one go, after its lookup has
\* ended, and are never modified afterwards
C15_OneLookupAndOneWritePerRow ==
    /\ [](\A t \in BatchRequests :
            /\ \A k, l \in 1..Len(calls[t]) : calls[t][k].row = calls[t][l].row => k = l
            /\ Returned(t) =>
                   \A i \in 1..Len(input[t]) :
                       ~IsBlankCell(input[t][i]) => (i - 1) \in CalledRows(t))
    /\ [][\A t \in BatchRequests : \A i \in 1..Len(df[t]) :
            /\ i <= Len(df'[t])
            /\ Written(t, i) => df'[t][i] = df[t][i]
            /\ (df'[t][i] # df[t][i] /\ (i - 1) \in CalledRows(t)) =>
                   /\ LastCallEnded(t)
                   /\ calls[t][Len(calls[t])].row = i - 1
                   /\ df[t][i] = NewRow(i - 1, input[t][i])
                   /\ df'[t][i].Is_Mobility_Area \in {"YES", "NO"}
                   /\ df'[t][i].Check_Status # << >>
                   /\ df'[t][i].Checked_At # << >>]_vars

\* a returned run of two looked-up rows, the first lookup having failed
C15_Witness ==
    \E t \in BatchRequests :
        /\ Returned(t)
        /\ Len(calls[t]) = 2
        /\ 0 \in FailedRows(t)
        /\ Written(t, 1) /\ Written(t, 2)

\* C16: when the loop leaves a row, it has waited RateLimitDelay seconds if a
\* lookup was made for the row and has not waited at all if the row was
\* skipped as an empty address
C16_NoDelayAfterEmptyRow ==
    [][\A t \in BatchRequests :
          idx'[t] = idx[t] + 1 =>
              IF idx[t] \in CalledRows(t)
              THEN now'[t] = now[t] + RateLimitDelay /\ pc[t] = "ps_sleep"
              ELSE /\ now'[t] = now[t]
                   /\ pc[t] = "ps_loop" /\ pc'[t] = "ps_loop"
                   /\ df'[t][idx[t] + 1].Check_Status = <<"Empty address">>]_vars

\* the loop is past a looked-up row and an empty row: the only wait since
\* the end of the lookup is the one after the looked-up row
C16_Witness ==
    \E t \in BatchRequests :
        /\ pc[t] = "ps_loop" /\ idx[t] = 2
        /\ CalledRows(t) = {0}
        /\ df[t][2].Check_Status = <<"Empty address">>
        /\ now[t] = calls[t][1].end + RateLimitDelay

\* C17: in a batch run of N rows every progress event (done, total) has
\* total = N and 1 <= done <= N, the done values increase strictly, an event is
\* emitted for a row whose result cells are already written, and when the
\* lookup of a later row has started the events of the rows looked up before
\* it have been emitted
C17_ProgressEventsOrdered ==
    /\ [](\A t \in BatchRequests :
            /\ \A k \in 1..Len(events[t]) :
                   /\ events[t][k][2] = Len(input[t])
                   /\ 1 <= events[t][k][1] /\ events[t][k][1] <= Len(input[t])
            /\ \A k, l \in 1..Len(events[t]) : k < l => events[t][k][1] < events[t][l][1]
            /\ progress_callback[t] =>
                   \A l \in 1..Len(calls[t]) : \A k \in 1..(l - 1) :
                       \E e \in 1..Len(events[t]) : events[t][e][1] = calls[t][k].row + 1)
    /\ [][\A t \in BatchRequests :
            events'[t] # events[t] =>
                /\ Len(events'[t]) = Len(events[t]) + 1
                /\ SubSeq(events'[t], 1, Len(events[t])) = events[t]
                /\ LET done == events'[t][Len(events'[t])][1]
                   IN  /\ Written(t, done)
                       /\ df[t][done].Is_Mobility_Area \in {"YES", "NO"}
                       /\ df[t][done].Checked_At # << >>
                       /\ LastCallEnded(t)
                       /\ calls[t][Len(calls[t])].row = done - 1]_vars

\* two rows looked up, two events emitted
C17_Witness ==
    \E t \in BatchRequests :
        /\ events[t] = << <<1, 2>>, <<2, 2>> >>
        /\ Len(calls[t]) = 2

\* C18: two successful uploads never get the same stored filename, and the
\* file /process reads under the name a client was given holds the content
\* that client sent
C18_UploadsNeverCollide ==
    \A c \in Requests :
        upload_response[c].code = 200 =>
            /\ \A d \in Requests \ {c} :
                   upload_response[d].code = 200 =>
                       upload_response[d].filename # upload_response[c].filename
            /\ ProcessedContent(c) = sent[c].content

====
